---------------------------- MODULE Spec2Model ----------------------------
(***************************************************************************)
(* A model of the watermarker command line tool (src/index.js).            *)
(*                                                                         *)
(* The program is a linear pipeline: start-up validation at module level,  *)
(* discovery of the image files by a glob, then one processImage call per  *)
(* discovered file, strictly one after the other.  Its only arithmetic is  *)
(* getPositionCoordinates (placement of the overlay) and the font sizing   *)
(* of createTextWatermark.                                                 *)
(*                                                                         *)
(* Numbers.  JavaScript numbers are modelled as exact rationals            *)
(* [n |-> numerator, d |-> denominator] in lowest terms, d > 0, together   *)
(* with the value NaN, written [n |-> 0, d |-> 0].  NaN is what parseFloat *)
(* returns for an option string that does not start with a number, and     *)
(* Math.max, Math.min, Math.floor, Math.round and the arithmetic operators *)
(* propagate it.  A double rounds where a rational does not, so a          *)
(* Math.floor taken exactly at an integer may differ by one from the       *)
(* program's; nothing stated below depends on such a boundary.             *)
(*                                                                         *)
(* Strings the program inspects character by character (the position and  *)
(* scale options) are sequences of one-character strings.                  *)
(***************************************************************************)
EXTENDS Integers, Sequences, FiniteSets, TLC

VARIABLES
    pc,             \* "start", "main", "loop", "exited"; "idle" in the harnesses
    world,          \* the file system and libraries as the run finds them
    options,        \* program.opts(): watermark, text, position, scale
    images,         \* main's `images`: the list findImages returned
    idx,            \* position of the for-of loop of main in `images`
    attempted,      \* one entry per processImage call, in call order
    overlayBuilds,  \* one entry per overlay buffer constructed
    outDir,         \* files in the output directory, keyed by base name
    fsOps,          \* every file system operation performed so far, in order
    outputDirCreated, \* whether fs.ensureDirSync(options.output) has run
    exitCode,       \* the process's exit status, -1 (NoExit) while it runs
    call,           \* pure-function harness: the arguments of the call
    ret             \* pure-function harness: the value returned

vars == <<pc, world, options, images, idx, attempted, overlayBuilds, outDir,
          fsOps, outputDirCreated, exitCode, call, ret>>

pipelineVars == <<pc, world, options, images, idx, attempted, overlayBuilds,
                  outDir, fsOps, outputDirCreated, exitCode>>

-----------------------------------------------------------------------------
(* Bounds of the model.                                                    *)

\* Longest list of files a glob returns.
MaxFiles == 2
\* Longest watermark text of the font-sizing harness.
MaxTextLen == 14
\* Image and overlay dimensions of the placement harness are the multiples
\* DimStep, 2*DimStep, ..., MaxDimSteps*DimStep.
MaxDimSteps == 4
DimStep == 37

-----------------------------------------------------------------------------
(* JavaScript numbers.                                                     *)

RECURSIVE GCD(_, _)
GCD(a, b) == IF b = 0 THEN a ELSE GCD(b, a % b)

Abs(x) == IF x < 0 THEN 0 - x ELSE x

NaN == [n |-> 0, d |-> 0]

IsNaN(x) == x.d = 0

\* The rational n/d (d > 0) in lowest terms.
Rat(n, d) ==
    LET g == GCD(Abs(n), d)
    IN  [n |-> n \div g, d |-> d \div g]

Num(i) == [n |-> i, d |-> 1]

Mul(a, b) == IF IsNaN(a) \/ IsNaN(b) THEN NaN ELSE Rat(a.n * b.n, a.d * b.d)

\* a / b for b # 0 (the program only divides by positive constants and by
\* the length of a non-empty text).
Div(a, b) ==
    IF IsNaN(a) \/ IsNaN(b) THEN NaN
    ELSE IF b.n < 0 THEN Rat((0 - a.n) * b.d, a.d * (0 - b.n))
    ELSE Rat(a.n * b.d, a.d * b.n)

Sub(a, b) ==
    IF IsNaN(a) \/ IsNaN(b) THEN NaN ELSE Rat(a.n * b.d - b.n * a.d, a.d * b.d)

Add(a, b) ==
    IF IsNaN(a) \/ IsNaN(b) THEN NaN ELSE Rat(a.n * b.d + b.n * a.d, a.d * b.d)

\* a <= b as JavaScript compares: false when either side is NaN.
Le(a, b) == ~IsNaN(a) /\ ~IsNaN(b) /\ a.n * b.d <= b.n * a.d

MathMax(a, b) == IF IsNaN(a) \/ IsNaN(b) THEN NaN ELSE IF Le(a, b) THEN b ELSE a

MathMin(a, b) == IF IsNaN(a) \/ IsNaN(b) THEN NaN ELSE IF Le(a, b) THEN a ELSE b

MathFloor(a) == IF IsNaN(a) THEN NaN ELSE Num(a.n \div a.d)

\* Math.round rounds half up: floor(a + 1/2).
MathRound(a) == IF IsNaN(a) THEN NaN ELSE Num((2 * a.n + a.d) \div (2 * a.d))

-----------------------------------------------------------------------------
(* Strings.                                                                *)

UpperCase == <<"A", "B", "C", "D", "E", "F", "G", "H", "I", "J", "K", "L", "M",
               "N", "O", "P", "Q", "R", "S", "T", "U", "V", "W", "X", "Y", "Z">>
LowerCase == <<"a", "b", "c", "d", "e", "f", "g", "h", "i", "j", "k", "l", "m",
               "n", "o", "p", "q", "r", "s", "t", "u", "v", "w", "x", "y", "z">>

toLowerCaseChar(c) ==
    IF \E i \in DOMAIN UpperCase : UpperCase[i] = c
    THEN LowerCase[CHOOSE i \in DOMAIN UpperCase : UpperCase[i] = c]
    ELSE c

\* String.prototype.toLowerCase.
toLowerCase(s) == [i \in DOMAIN s |-> toLowerCaseChar(s[i])]

Digits == <<"0", "1", "2", "3", "4", "5", "6", "7", "8", "9">>

IsDigit(c) == \E i \in DOMAIN Digits : Digits[i] = c

DigitValue(c) == (CHOOSE i \in DOMAIN Digits : Digits[i] = c) - 1

\* Number of consecutive digits of s from position i on.
RECURSIVE DigitRun(_, _)
DigitRun(s, i) ==
    IF i <= Len(s) /\ IsDigit(s[i]) THEN 1 + DigitRun(s, i + 1) ELSE 0

\* The value of the k digits of s that start at position i, after acc.
RECURSIVE DigitsValue(_, _, _, _)
DigitsValue(s, i, k, acc) ==
    IF k = 0 THEN acc
    ELSE DigitsValue(s, i + 1, k - 1, 10 * acc + DigitValue(s[i]))

RECURSIVE Pow10(_)
Pow10(k) == IF k = 0 THEN 1 ELSE 10 * Pow10(k - 1)

\* parseFloat: the longest prefix [sign] digits [. digits] that holds at
\* least one digit, NaN when there is none; what follows is ignored.  The
\* strings of the model hold no white space, exponent or "Infinity".
parseFloat(s) ==
    LET signed == Len(s) >= 1 /\ s[1] \in {"-", "+"}
        neg    == Len(s) >= 1 /\ s[1] = "-"
        i0     == IF signed THEN 2 ELSE 1
        k1     == DigitRun(s, i0)
        dot    == i0 + k1 <= Len(s) /\ s[i0 + k1] = "."
        k2     == IF dot THEN DigitRun(s, i0 + k1 + 1) ELSE 0
        whole  == DigitsValue(s, i0, k1, 0)
        all    == DigitsValue(s, i0 + k1 + 1, k2, whole)
        mag    == Rat(all, Pow10(k2))
    IN  IF k1 + k2 = 0 THEN NaN
        ELSE IF neg THEN Rat(0 - mag.n, mag.d) ELSE mag

-----------------------------------------------------------------------------
(* getPositionCoordinates.                                                 *)

padding == 10

TOPLEFT     == <<"t", "o", "p", "l", "e", "f", "t">>
TOPRIGHT    == <<"t", "o", "p", "r", "i", "g", "h", "t">>
BOTTOMLEFT  == <<"b", "o", "t", "t", "o", "m", "l", "e", "f", "t">>
BOTTOMRIGHT == <<"b", "o", "t", "t", "o", "m", "r", "i", "g", "h", "t">>
CENTER      == <<"c", "e", "n", "t", "e", "r">>

\* A bottom-right corner whose vertical padding is added instead of
\* subtracted.
getPositionCoordinatesPaddingSign(position, imageWidth, imageHeight, watermarkWidth, watermarkHeight) ==
    LET p == toLowerCase(position)
    IN  IF p = TOPLEFT THEN
            [left |-> Num(padding), top |-> Num(padding), threw |-> FALSE]
        ELSE IF p = TOPRIGHT THEN
            [left |-> Num(imageWidth - watermarkWidth - padding),
             top |-> Num(padding), threw |-> FALSE]
        ELSE IF p = BOTTOMLEFT THEN
            [left |-> Num(padding),
             top |-> Num(imageHeight - watermarkHeight - padding), threw |-> FALSE]
        ELSE IF p = BOTTOMRIGHT THEN
            [left |-> Num(imageWidth - watermarkWidth - padding),
             top |-> Num(imageHeight - watermarkHeight + padding), threw |-> FALSE]
        ELSE
            [left |-> Div(Num(imageWidth - watermarkWidth), Num(2)),
             top |-> Div(Num(imageHeight - watermarkHeight), Num(2)),
             threw |-> FALSE]

\* A centre placement rounded down to whole pixels, and an unknown position
\* rejected instead of centred.
getPositionCoordinatesStrict(position, imageWidth, imageHeight, watermarkWidth, watermarkHeight) ==
    LET p == toLowerCase(position)
    IN  IF p = TOPLEFT THEN
            [left |-> Num(padding), top |-> Num(padding), threw |-> FALSE]
        ELSE IF p = TOPRIGHT THEN
            [left |-> Num(imageWidth - watermarkWidth - padding),
             top |-> Num(padding), threw |-> FALSE]
        ELSE IF p = BOTTOMLEFT THEN
            [left |-> Num(padding),
             top |-> Num(imageHeight - watermarkHeight - padding), threw |-> FALSE]
        ELSE IF p = BOTTOMRIGHT THEN
            [left |-> Num(imageWidth - watermarkWidth - padding),
             top |-> Num(imageHeight - watermarkHeight - padding), threw |-> FALSE]
        ELSE IF p = CENTER THEN
            [left |-> MathFloor(Div(Num(imageWidth - watermarkWidth), Num(2))),
             top |-> MathFloor(Div(Num(imageHeight - watermarkHeight), Num(2))),
             threw |-> FALSE]
        ELSE
            [left |-> NaN, top |-> NaN, threw |-> TRUE]

\* The switch on position.toLowerCase(); `threw` records that the function
\* returns normally on every path.
getPositionCoordinates(position, imageWidth, imageHeight, watermarkWidth, watermarkHeight) ==
    LET p == toLowerCase(position)
    IN  IF p = TOPLEFT THEN
            [left |-> Num(padding), top |-> Num(padding), threw |-> FALSE]
        ELSE IF p = TOPRIGHT THEN
            [left |-> Num(imageWidth - watermarkWidth - padding),
             top |-> Num(padding), threw |-> FALSE]
        ELSE IF p = BOTTOMLEFT THEN
            [left |-> Num(padding),
             top |-> Num(imageHeight - watermarkHeight - padding), threw |-> FALSE]
        ELSE IF p = BOTTOMRIGHT THEN
            [left |-> Num(imageWidth - watermarkWidth - padding),
             top |-> Num(imageHeight - watermarkHeight - padding), threw |-> FALSE]
        ELSE
            \* case 'center' and default
            [left |-> Div(Num(imageWidth - watermarkWidth), Num(2)),
             top |-> Div(Num(imageHeight - watermarkHeight), Num(2)),
             threw |-> FALSE]

-----------------------------------------------------------------------------
(* createTextWatermark and the watermark dimensions of processImage.       *)

MinWatermarkSide == 50
MinFontSize == 12
LongTextLength == 8

\* processImage: Math.max(50, imageWidth * parseFloat(options.scale)).
watermarkMaxWidth(imageWidth, scale) ==
    MathMax(Num(MinWatermarkSide), Mul(Num(imageWidth), parseFloat(scale)))

\* A maximal height that ignores the scale option.
watermarkMaxHeightUnscaled(imageHeight, scale) ==
    MathMax(Num(MinWatermarkSide), Num(imageHeight))

\* processImage: Math.max(50, imageHeight * parseFloat(options.scale)).
watermarkMaxHeight(imageHeight, scale) ==
    MathMax(Num(MinWatermarkSide), Mul(Num(imageHeight), parseFloat(scale)))

\* The numbers createTextWatermark(width, height) computes for a text of
\* textLength >= 1 characters: the box the font is sized for, the font size
\* and the SVG canvas.
createTextWatermark(textLength, width, height) ==
    LET watermarkWidth  == MathMax(Num(MinWatermarkSide), width)
        watermarkHeight == MathMax(Num(MinWatermarkSide), Mul(height, Rat(6, 10)))
        base      == MathFloor(MathMin(Div(watermarkWidth, Num(5)),
                                       Div(watermarkHeight, Rat(12, 10))))
        textScaleFactor == MathMin(Num(1), Div(Num(LongTextLength), Num(textLength)))
        scaled    == IF textLength > LongTextLength
                     THEN MathFloor(Mul(Mul(base, textScaleFactor), Rat(15, 10)))
                     ELSE base
        maxFontSize == MathMin(Div(watermarkWidth, Mul(Num(textLength), Rat(6, 10))),
                               Mul(watermarkHeight, Rat(9, 10)))
        capped    == MathMin(scaled, maxFontSize)
        fontSize  == MathMax(Num(MinFontSize), capped)
        svgWidth  == MathMax(watermarkWidth,
                             Mul(Mul(fontSize, Num(textLength)), Rat(7, 10)))
        svgHeight == MathMax(MathMin(watermarkHeight, Mul(fontSize, Rat(13, 10))),
                             Mul(fontSize, Rat(12, 10)))
    IN  [watermarkWidth |-> watermarkWidth, watermarkHeight |-> watermarkHeight,
         fontSize |-> fontSize,
         svgWidth |-> MathRound(svgWidth), svgHeight |-> MathRound(svgHeight)]

-----------------------------------------------------------------------------
(* Harness of the two pure functions: Init draws the arguments, the one    *)
(* action applies the function.                                            *)

Idle == [fn |-> "none"]

PipelineIdle ==
    /\ pc = "idle"
    /\ world = [inputExists |-> FALSE, logo |-> [ok |-> FALSE, width |-> 0, height |-> 0],
                files |-> <<>>]
    /\ options = [watermark |-> <<>>, text |-> <<>>, position |-> CENTER, scale |-> <<"1">>]
    /\ images = <<>>
    /\ idx = 0
    /\ attempted = <<>>
    /\ overlayBuilds = <<>>
    /\ outDir = {}
    /\ fsOps = <<>>
    /\ outputDirCreated = FALSE
    /\ exitCode = 0 - 1

\* Position strings: the five names, other spellings of them, and strings
\* that are none of them.
PositionStrings ==
    { TOPLEFT, TOPRIGHT, BOTTOMLEFT, BOTTOMRIGHT, CENTER,
      <<"T", "o", "p", "L", "e", "f", "t">>,
      <<"T", "O", "P", "R", "I", "G", "H", "T">>,
      <<"B", "o", "t", "t", "o", "m", "L", "e", "f", "t">>,
      <<"b", "o", "t", "t", "o", "m", "R", "I", "G", "H", "T">>,
      <<"C", "e", "n", "t", "e", "r">>,
      <<"t", "o", "p", "-", "l", "e", "f", "t">>,
      <<"m", "i", "d", "d", "l", "e">>,
      <<"t", "o", "p">>,
      <<>> }

Dims == { k * DimStep : k \in 1..MaxDimSteps }

InitPos ==
    /\ PipelineIdle
    /\ call \in [fn : {"getPositionCoordinates"}, position : PositionStrings,
                 imageWidth : Dims, imageHeight : Dims,
                 watermarkWidth : Dims, watermarkHeight : Dims]
    /\ ret = [done |-> FALSE]

CallGetPositionCoordinates ==
    /\ call.fn = "getPositionCoordinates"
    /\ ~ret.done
    /\ ret' = [done |-> TRUE,
               value |-> getPositionCoordinates(call.position, call.imageWidth,
                            call.imageHeight, call.watermarkWidth, call.watermarkHeight)]
    /\ UNCHANGED <<call, pipelineVars>>

NextPos == CallGetPositionCoordinates

SpecPos == InitPos /\ [][NextPos]_vars

\* Scale option strings: fractions, whole numbers, a negative number, zero,
\* a number followed by other characters, and strings parseFloat rejects.
ScaleStrings ==
    { <<"0", ".", "2">>, <<"0", ".", "4">>, <<".", "2", "5">>, <<"1">>, <<"2">>,
      <<"0">>, <<"-", "1">>, <<"0", ".", "5", "x">>, <<"a", "b", "c">>, <<".">> }

ImageWidths == {1, 40, 300, 500, 1000, 4000}
ImageHeights == {1, 30, 300, 600, 3000}

InitFont ==
    /\ PipelineIdle
    /\ call \in [fn : {"createTextWatermark"}, textLength : 1..MaxTextLen,
                 imageWidth : ImageWidths, imageHeight : ImageHeights,
                 scale : ScaleStrings]
    /\ ret = [done |-> FALSE]

\* processImage's call createTextWatermark(watermarkMaxWidth, watermarkMaxHeight).
CallCreateTextWatermark ==
    /\ call.fn = "createTextWatermark"
    /\ ~ret.done
    /\ ret' = [done |-> TRUE,
               value |-> createTextWatermark(call.textLength,
                            watermarkMaxWidth(call.imageWidth, call.scale),
                            watermarkMaxHeight(call.imageHeight, call.scale))]
    /\ UNCHANGED <<call, pipelineVars>>

NextFont == CallCreateTextWatermark

SpecFont == InitFont /\ [][NextFont]_vars

-----------------------------------------------------------------------------
(* The pipeline: start-up, discovery, one processImage per file.           *)

\* JavaScript truthiness of a string option: unset and "" are both falsy.
\* An option left unset is modelled as the empty string.
Truthy(s) == Len(s) > 0

LogoPath == <<"l", "o", "g", "o", ".", "p", "n", "g">>

NoExit == 0 - 1

\* A watermark text of six characters, as in the demo's "(c) 2024".
DemoText == <<"(", "c", ")", "2", "0", "2">>

\* The watermark image file: absent or undecodable, or a 200x100 logo.
Logos == { [ok |-> FALSE, width |-> 0, height |-> 0],
           [ok |-> TRUE, width |-> 200, height |-> 100] }

\* Absolute paths a glob may return.  A filter such as **/*.png reaches
\* sub-directories, so two discovered paths may share a base name.
Paths == { [dir |-> "in", base |-> "a.png"],
           [dir |-> "in", base |-> "b.png"],
           [dir |-> "in/sub", base |-> "a.png"] }

\* path.basename
basename(p) == p.base

ImageSizes == { <<500, 300>>, <<1000, 600>>, <<40, 30>> }

\* What a discovered path turns out to be:
\*   noaccess   fs.access rejects          vanished   fs.stat rejects
\*   directory  stats.isFile() is false    empty      stats.size is 0
\*   badheader  sharp().metadata() rejects
\*   nodims     the metadata holds no width or height
\*   truncated  the header decodes, the pixel data does not
\*   image      a sound image
FileStates ==
    { [kind |-> k, width |-> 0, height |-> 0] :
        k \in {"noaccess", "vanished", "directory", "empty", "badheader", "nodims"} }
    \cup { [kind |-> "truncated", width |-> 500, height |-> 300] }
    \cup { [kind |-> "image", width |-> sz[1], height |-> sz[2]] : sz \in ImageSizes }

Files == { [path |-> p, kind |-> f.kind, width |-> f.width, height |-> f.height] :
             p \in Paths, f \in FileStates }

\* The lists a glob may resolve to: any order, no path twice.
GlobResults ==
    UNION { { fs \in [1..n -> Files] :
                \A i, j \in 1..n : i # j => fs[i].path # fs[j].path } :
            n \in 0..MaxFiles }

\* A start-up validation that is fatal unless exactly one of the two
\* sources is given.
missingWatermarkSourceExactlyOne(opts) ==
    Truthy(opts.watermark) = Truthy(opts.text)

\* if (!options.watermark && !options.text)
missingWatermarkSource(opts) ==
    ~Truthy(opts.watermark) /\ ~Truthy(opts.text)

\* An image overlay decoded and left at the logo's own size.
resizeWatermarkUnscaled(logo, maxWidth) ==
    [ok |-> logo.ok, width |-> logo.width, height |-> logo.height]

\* sharp(options.watermark).resize({width: Math.floor(watermarkMaxWidth),
\* fit: 'inside'}).ensureAlpha().toBuffer(): the logo scaled to that width,
\* its aspect ratio kept.  sharp rejects a width that is no positive
\* integer, and a logo it cannot decode.
resizeWatermark(logo, maxWidth) ==
    LET w == MathFloor(maxWidth)
        ok == logo.ok /\ ~IsNaN(w) /\ w.n > 0
        h == IF ok THEN MathRound(Rat(logo.height * w.n, logo.width)) ELSE Num(0)
    IN  [ok |-> ok,
         width |-> IF ok THEN w.n ELSE 0,
         height |-> IF ok THEN (IF h.n < 1 THEN 1 ELSE h.n) ELSE 0]

\* The raster of the text variant: the SVG canvas, rounded.  It cannot be
\* rasterized when its dimensions are NaN.
textOverlay(t) ==
    IF IsNaN(t.svgWidth) \/ IsNaN(t.svgHeight)
    THEN [ok |-> FALSE, variant |-> "text", width |-> 0, height |-> 0]
    ELSE [ok |-> TRUE, variant |-> "text",
          width |-> t.svgWidth.n, height |-> t.svgHeight.n]

imageOverlay(r) ==
    [ok |-> r.ok, variant |-> "image", width |-> r.width, height |-> r.height]

\* The overlay step of processImage: the text variant when options.text is
\* set, the image variant otherwise.
buildOverlay(opts, logo, imageWidth, imageHeight) ==
    IF Truthy(opts.text) THEN
        textOverlay(createTextWatermark(Len(opts.text),
                        watermarkMaxWidth(imageWidth, opts.scale),
                        watermarkMaxHeight(imageHeight, opts.scale)))
    ELSE
        imageOverlay(resizeWatermark(logo, watermarkMaxWidth(imageWidth, opts.scale)))

\* An error of fs.stat passed on to the caller.
onUnexpectedErrorRethrown(file) ==
    [outcome |-> "error", ops |-> <<"access", "stat">>, builds |-> <<>>,
     written |-> "none", left |-> 0, top |-> 0, rejected |-> TRUE]

\* The outer catch of processImage: log, and return normally.
onUnexpectedError(file) ==
    [outcome |-> "error", ops |-> <<"access", "stat">>, builds |-> <<>>,
     written |-> "none", left |-> 0, top |-> 0, rejected |-> FALSE]

Skipped(outcome, ops) ==
    [outcome |-> outcome, ops |-> ops, builds |-> <<>>,
     written |-> "none", left |-> 0, top |-> 0, rejected |-> FALSE]

\* The ways sharp(inputFile).composite([...]).toFile(outputFile) may end.
\* It rejects an overlay larger than the base image before it encodes
\* anything.  A truncated image fails while the encoder pulls its pixels,
\* after the output file has been opened: toFile writes to outputFile
\* itself and the catch removes nothing, so the file may stay behind.
toFile(file, overlay) ==
    IF overlay.width > file.width \/ overlay.height > file.height THEN {"none"}
    ELSE IF file.kind = "truncated" THEN {"none", "partial"}
    ELSE {"complete"}

\* The last step of processImage: composite at the floored position and
\* write to the output file.
applyWatermark(file, overlay, position) ==
    { [outcome |-> IF w = "complete" THEN "written" ELSE "compositefailed",
       ops |-> <<"access", "stat", "metadata", "toFile">>,
       builds |-> << [by |-> file.path, variant |-> overlay.variant,
                      width |-> overlay.width, height |-> overlay.height] >>,
       written |-> w,
       left |-> MathFloor(position.left).n,
       top |-> MathFloor(position.top).n,
       rejected |-> FALSE] : w \in toFile(file, overlay) }

\* sharp(watermarkBuffer).metadata() rejects: the overlay was built, the
\* file is skipped.
watermarkMetadataFailed(file, overlay) ==
    [outcome |-> "overlaymetadatafailed", ops |-> <<"access", "stat", "metadata">>,
     builds |-> << [by |-> file.path, variant |-> overlay.variant,
                    width |-> overlay.width, height |-> overlay.height] >>,
     written |-> "none", left |-> 0, top |-> 0, rejected |-> FALSE]

\* processImage once the overlay step has run: the metadata of the overlay
\* buffer is read, which may fail, then the position is computed and the
\* watermark applied.
placeWatermark(file, opts, overlay) ==
    IF ~overlay.ok THEN
        { Skipped("overlayfailed", <<"access", "stat", "metadata">>) }
    ELSE
        { watermarkMetadataFailed(file, overlay) }
        \cup applyWatermark(file, overlay,
                getPositionCoordinates(opts.position, file.width, file.height,
                                       overlay.width, overlay.height))

\* The checks of processImage that come before the decode, without the
\* test of the size.
checkFileAnySize(file) ==
    IF file.kind = "noaccess" THEN [outcome |-> "noaccess", ops |-> <<"access">>]
    ELSE IF file.kind = "vanished" THEN [outcome |-> "error", ops |-> <<"access", "stat">>]
    ELSE IF file.kind = "directory" THEN [outcome |-> "notfile", ops |-> <<"access", "stat">>]
    ELSE [outcome |-> "ok", ops |-> <<"access", "stat">>]

\* The checks of processImage that come before the decode: fs.access for
\* reading, fs.stat, stats.isFile(), stats.size === 0.  A rejection of
\* fs.stat is an "error": it goes to the outer catch.
checkFile(file) ==
    IF file.kind = "noaccess" THEN [outcome |-> "noaccess", ops |-> <<"access">>]
    ELSE IF file.kind = "vanished" THEN [outcome |-> "error", ops |-> <<"access", "stat">>]
    ELSE IF file.kind = "directory" THEN [outcome |-> "notfile", ops |-> <<"access", "stat">>]
    ELSE IF file.kind = "empty" THEN [outcome |-> "empty", ops |-> <<"access", "stat">>]
    ELSE [outcome |-> "ok", ops |-> <<"access", "stat">>]

\* sharp(inputFile).metadata(): rejects what is no image, an empty file
\* included.
metadataRejects(file) == file.kind \notin {"nodims", "truncated", "image"}

\* processImage from the decode of the metadata on.
decodeAndPlace(file, opts, logo) ==
    IF metadataRejects(file) THEN
        { Skipped("badmetadata", <<"access", "stat", "metadata">>) }
    ELSE IF file.width = 0 \/ file.height = 0 THEN
        { Skipped("nodimensions", <<"access", "stat", "metadata">>) }
    ELSE
        placeWatermark(file, opts, buildOverlay(opts, logo, file.width, file.height))

processImageChecked(file, opts, logo, check) ==
    IF check.outcome = "error" THEN { onUnexpectedError(file) }
    ELSE IF check.outcome # "ok" THEN { Skipped(check.outcome, check.ops) }
    ELSE decodeAndPlace(file, opts, logo)

\* processImage(inputFile): every way the call may end, with the file
\* system operations it performs, the overlay it builds and what it leaves
\* in the output directory under the file's base name.
processImage(file, opts, logo) ==
    processImageChecked(file, opts, logo, checkFile(file))

StartupOp(name) == [op |-> name, target |-> [dir |-> "", base |-> ""]]

FileOps(path, ops) == [i \in DOMAIN ops |-> [op |-> ops[i], target |-> path]]

Init ==
    /\ pc = "start"
    /\ world \in [inputExists : BOOLEAN, logo : Logos, files : {<<>>}]
    /\ options \in [watermark : {<<>>, LogoPath}, text : {<<>>, DemoText},
                    position : {BOTTOMRIGHT, <<"C", "e", "n", "t", "e", "r">>},
                    scale : {<<"0", ".", "2">>, <<"a", "b", "c">>}]
    /\ images = <<>>
    /\ idx = 0
    /\ attempted = <<>>
    /\ overlayBuilds = <<>>
    /\ outDir = {}
    /\ fsOps = <<>>
    /\ outputDirCreated = FALSE
    /\ exitCode = NoExit
    /\ call = Idle
    /\ ret = [done |-> FALSE]

\* The module's top-level statements up to the call of main().
Startup ==
    /\ pc = "start"
    /\ IF ~world.inputExists THEN
            /\ fsOps' = <<StartupOp("existsSync")>>
            /\ outputDirCreated' = outputDirCreated
            /\ pc' = "exited"
            /\ exitCode' = 1
       ELSE
            /\ fsOps' = <<StartupOp("existsSync"), StartupOp("ensureDirSync")>>
            /\ outputDirCreated' = TRUE
            /\ IF missingWatermarkSource(options)
               THEN pc' = "exited" /\ exitCode' = 1
               ELSE pc' = "main" /\ exitCode' = exitCode
    /\ UNCHANGED <<world, options, images, idx, attempted, overlayBuilds, outDir,
                   call, ret>>

\* main() up to its loop: findImages throws.
MainFindImagesThrows ==
    /\ pc = "main"
    /\ fsOps' = Append(fsOps, StartupOp("glob"))
    /\ pc' = "exited"
    /\ exitCode' = 1
    /\ UNCHANGED <<world, options, images, idx, attempted, overlayBuilds, outDir,
                   outputDirCreated, call, ret>>

\* main() up to its loop: findImages returns a list.
MainFindImages ==
    /\ pc = "main"
    /\ fsOps' = Append(fsOps, StartupOp("glob"))
    /\ \E found \in GlobResults :
         /\ world' = [world EXCEPT !.files = found]
         /\ images' = [i \in DOMAIN found |-> found[i].path]
         /\ IF Len(found) = 0
            THEN pc' = "exited" /\ exitCode' = 0 /\ idx' = idx
            ELSE pc' = "loop" /\ exitCode' = exitCode /\ idx' = 1
    /\ UNCHANGED <<options, attempted, overlayBuilds, outDir, outputDirCreated,
                   call, ret>>

\* One iteration of `for (const image of images) await processImage(image)`.
ProcessImage ==
    /\ pc = "loop"
    /\ idx <= Len(images)
    /\ \E r \in processImage(world.files[idx], options, world.logo) :
         /\ attempted' = Append(attempted, [path |-> images[idx], outcome |-> r.outcome,
                                            left |-> r.left, top |-> r.top])
         /\ overlayBuilds' = overlayBuilds \o r.builds
         /\ fsOps' = fsOps \o FileOps(images[idx], r.ops)
         /\ outDir' = IF r.written = "none" THEN outDir
                      ELSE { f \in outDir : f.base # basename(images[idx]) }
                           \cup { [base |-> basename(images[idx]), by |-> images[idx],
                                   status |-> r.written] }
         /\ IF r.rejected
            THEN pc' = "exited" /\ exitCode' = 1 /\ idx' = idx
            ELSE pc' = pc /\ exitCode' = exitCode /\ idx' = idx + 1
    /\ UNCHANGED <<world, options, images, outputDirCreated, call, ret>>

\* The loop is over: main returns and the process ends.
MainReturn ==
    /\ pc = "loop"
    /\ idx > Len(images)
    /\ pc' = "exited"
    /\ exitCode' = 0
    /\ UNCHANGED <<world, options, images, idx, attempted, overlayBuilds, outDir,
                   fsOps, outputDirCreated, call, ret>>

Next ==
    \/ Startup
    \/ MainFindImagesThrows
    \/ MainFindImages
    \/ ProcessImage
    \/ MainReturn

Spec == Init /\ [][Next]_vars

-----------------------------------------------------------------------------
(* Properties of start-up.                                                 *)

NeitherSet == ~Truthy(options.watermark) /\ ~Truthy(options.text)

BothSet == Truthy(options.watermark) /\ Truthy(options.text)

GlobCalled == \E k \in DOMAIN fsOps : fsOps[k].op = "glob"

\* C1: a run with neither --watermark nor --text (the input directory
\* existing) exits non-zero having performed no file system operation but
\* the existence check of the input directory; the output directory is not
\* created.
C1_NoFilesystemTouchedBeforeFatalExit ==
    (pc = "exited" /\ world.inputExists /\ NeitherSet) =>
        /\ exitCode # 0
        /\ fsOps = <<StartupOp("existsSync")>>
        /\ ~outputDirCreated

\* C2 as stated: exactly one of the two sources must be set; a run with
\* neither and a run with both end before any image is discovered or
\* processed.
C2_ExactlyOneSourceEnforced ==
    (NeitherSet \/ BothSet) =>
        /\ ~GlobCalled
        /\ images = <<>>
        /\ attempted = <<>>
        /\ pc # "loop"

\* C2 as amended: at least one of the two sources must be set.  A run with
\* neither ends with status 1 before discovery; a run with one or both
\* whose input directory exists always goes on to discovery; with both set
\* every overlay is the text variant.
C2_AtLeastOneSourceEnforced ==
    /\ NeitherSet =>
        /\ ~GlobCalled
        /\ attempted = <<>>
        /\ pc \in {"start", "exited"}
        /\ (pc = "exited" => exitCode = 1)
    /\ (~NeitherSet /\ world.inputExists /\ pc = "exited") => GlobCalled
    /\ BothSet => \A k \in DOMAIN overlayBuilds : overlayBuilds[k].variant = "text"

C2_Witness ==
    /\ BothSet
    /\ pc = "exited"
    /\ exitCode = 0
    /\ Len(overlayBuilds) >= 1
    /\ \E i \in DOMAIN attempted : attempted[i].outcome = "written"

-----------------------------------------------------------------------------
(* Properties of the per-file loop.                                        *)

SkippedKinds == {"noaccess", "directory", "empty"}

\* C5 as stated: for every discovered path that is unreadable, not a
\* regular file or empty, no file with that base name is written to the
\* output directory during the run, and the other files are processed.
\* (Only a completely written file counts here; what a failed write leaves
\* behind is the matter of C7.)
C5_SkippedBasenameNeverWritten ==
    /\ \A i \in DOMAIN attempted :
         world.files[i].kind \in SkippedKinds =>
            \A f \in outDir : f.status = "complete" => f.base # basename(images[i])
    /\ (pc = "exited" /\ Len(attempted) >= 1) => Len(attempted) = Len(images)

\* C5 as amended: such a path is skipped after fs.access and fs.stat, with
\* no decode and no write of its own; a file under its base name is in the
\* output directory only if another discovered path has the same base name
\* and wrote it; every discovered file is still processed.
C5_SkippedFileWritesNothing ==
    /\ \A i \in DOMAIN attempted :
         world.files[i].kind \in SkippedKinds =>
            /\ attempted[i].outcome \in {"noaccess", "notfile", "empty"}
            /\ \A k \in DOMAIN fsOps :
                 fsOps[k].target = images[i] => fsOps[k].op \in {"access", "stat"}
            /\ \A f \in outDir :
                 f.base = basename(images[i]) =>
                    /\ f.by # images[i]
                    /\ \E j \in DOMAIN attempted :
                         /\ j # i
                         /\ images[j] = f.by
                         /\ basename(images[j]) = basename(images[i])
    /\ (pc = "exited" /\ Len(attempted) >= 1) => Len(attempted) = Len(images)

C5_Witness ==
    /\ pc = "exited"
    /\ Len(attempted) = 2
    /\ world.files[1].kind = "empty"
    /\ attempted[1].outcome = "empty"
    /\ attempted[2].outcome = "written"
    /\ \E f \in outDir : f.base = basename(images[1])

\* C6: once discovery has returned a list of files, no failure of a
\* per-file step aborts the run: the files are attempted once each, in
\* discovery order, one at a time, and the process ends with status 0.
C6_FailuresNeverAbort ==
    Len(images) >= 1 =>
        /\ Len(attempted) <= Len(images)
        /\ \A i \in DOMAIN attempted : attempted[i].path = images[i]
        /\ (pc = "loop" => Len(attempted) = idx - 1)
        /\ (pc = "exited" => exitCode = 0 /\ Len(attempted) = Len(images))

C6_Witness ==
    /\ pc = "exited"
    /\ exitCode = 0
    /\ Len(attempted) = 2
    /\ attempted[1].outcome = "error"
    /\ attempted[2].outcome = "compositefailed"

\* C7: a file is left in the output directory by the processing of an
\* input file only if every step for that input, the composite, encode and
\* write included, succeeded; a failed step leaves no new or partial file.
C7_NoOutputUnlessEveryStepSucceeded ==
    \A i \in DOMAIN attempted :
        attempted[i].outcome # "written" =>
            \A f \in outDir : f.by # images[i]

\* C9 as stated: with an image watermark the overlay is constructed once
\* for the whole run, and every file receives an overlay of the same pixel
\* dimensions.  (Stated for the runs in which every file so far was
\* written.)
C9_ImageOverlayBuiltOnce ==
    (/\ ~Truthy(options.text)
     /\ \A i \in DOMAIN attempted : attempted[i].outcome = "written") =>
        /\ Len(overlayBuilds) <= 1
        /\ \A k, l \in DOMAIN overlayBuilds :
             /\ overlayBuilds[k].width = overlayBuilds[l].width
             /\ overlayBuilds[k].height = overlayBuilds[l].height

ReachedComposite(i) ==
    attempted[i].outcome \in {"written", "compositefailed", "overlaymetadatafailed"}

\* C9 as amended: in either variant the overlay is constructed once for
\* each file that reaches the overlay step, never once for the run; the
\* image variant is resized to the width
\* floor(max(50, imageWidth * scale)) of the file being processed.
C9_OverlayBuiltPerFile ==
    /\ Cardinality({ i \in DOMAIN attempted : ReachedComposite(i) }) = Len(overlayBuilds)
    /\ \A k, l \in DOMAIN overlayBuilds :
         k # l => overlayBuilds[k].by # overlayBuilds[l].by
    /\ \A k \in DOMAIN overlayBuilds :
         /\ overlayBuilds[k].variant = IF Truthy(options.text) THEN "text" ELSE "image"
         /\ \E i \in DOMAIN attempted :
              /\ ReachedComposite(i)
              /\ images[i] = overlayBuilds[k].by
              /\ overlayBuilds[k].variant = "image" =>
                    Num(overlayBuilds[k].width) =
                        MathFloor(MathMax(Num(50),
                            Mul(Num(world.files[i].width), parseFloat(options.scale))))

C9_Witness ==
    /\ ~Truthy(options.text)
    /\ Len(overlayBuilds) = 2
    /\ overlayBuilds[1].width # overlayBuilds[2].width
    /\ \A i \in DOMAIN attempted : attempted[i].outcome = "written"

-----------------------------------------------------------------------------
(* Properties of getPositionCoordinates (under SpecPos).                   *)

Placed == call.fn = "getPositionCoordinates" /\ ret.done

Names(position, name) == toLowerCase(position) = name

\* C3: for the four corner positions, whatever the overlay size (the
\* overlay fitting within the base image), the placement is exactly 10
\* pixels from each of the two edges the corner names.
C3_CornerPadding ==
    (/\ Placed
     /\ call.watermarkWidth <= call.imageWidth
     /\ call.watermarkHeight <= call.imageHeight) =>
        LET v == ret.value
            right  == Sub(Num(call.imageWidth), Add(v.left, Num(call.watermarkWidth)))
            bottom == Sub(Num(call.imageHeight), Add(v.top, Num(call.watermarkHeight)))
        IN  /\ (Names(call.position, TOPLEFT) \/ Names(call.position, BOTTOMLEFT))
                  => v.left = Num(10)
            /\ (Names(call.position, TOPRIGHT) \/ Names(call.position, BOTTOMRIGHT))
                  => right = Num(10)
            /\ (Names(call.position, TOPLEFT) \/ Names(call.position, TOPRIGHT))
                  => v.top = Num(10)
            /\ (Names(call.position, BOTTOMLEFT) \/ Names(call.position, BOTTOMRIGHT))
                  => bottom = Num(10)

C3_Witness ==
    /\ Placed
    /\ call.position = <<"b", "o", "t", "t", "o", "m", "R", "I", "G", "H", "T">>
    /\ call.watermarkWidth < call.imageWidth
    /\ call.watermarkHeight < call.imageHeight
    /\ call.watermarkWidth # call.watermarkHeight
    /\ ret.value.left.n > 10

IsCorner(position) ==
    \E name \in {TOPLEFT, TOPRIGHT, BOTTOMLEFT, BOTTOMRIGHT} : Names(position, name)

\* C4: for 'center' and for every string that is none of the enumerated
\* names, compared without regard to case, the placement is
\* left = (baseW - overlayW)/2, top = (baseH - overlayH)/2, and no error is
\* raised, for all dimensions.
C4_CenterAndUnknown ==
    (Placed /\ ~IsCorner(call.position)) =>
        /\ ~ret.value.threw
        /\ Mul(Num(2), ret.value.left) = Num(call.imageWidth - call.watermarkWidth)
        /\ Mul(Num(2), ret.value.top) = Num(call.imageHeight - call.watermarkHeight)

C4_Witness ==
    /\ Placed
    /\ call.position = <<"m", "i", "d", "d", "l", "e">>
    /\ call.watermarkWidth > call.imageWidth
    /\ ret.value.left.d = 2
    /\ ret.value.top.d = 1

-----------------------------------------------------------------------------
(* Properties of createTextWatermark (under SpecFont).                     *)

Sized == call.fn = "createTextWatermark" /\ ret.done

\* C8: the font size createTextWatermark computes is at least 12 pixels
\* for every text length >= 1 and every target width and height.
C8_FontSizeAtLeast12 ==
    Sized => Le(Num(12), ret.value.fontSize)

\* C10 as stated: the box the font is sized for is
\* width = max(50, baseWidth*scale), height = max(50, baseHeight*0.6); the
\* height does not depend on the scale option.  (Stated for the scale
\* options that parse to a number.)
C10_BoxHeightIgnoresScale ==
    (Sized /\ ~IsNaN(parseFloat(call.scale))) =>
        /\ ret.value.watermarkWidth =
              MathMax(Num(50), Mul(Num(call.imageWidth), parseFloat(call.scale)))
        /\ ret.value.watermarkHeight =
              MathMax(Num(50), Mul(Num(call.imageHeight), Rat(6, 10)))

\* C10 as amended: the box is width = Math.max(50, baseWidth*scale),
\* height = Math.max(50, baseHeight*scale*0.6): the height depends on the
\* scale option too.
C10_BoxHeightScaled ==
    Sized =>
        /\ ret.value.watermarkWidth =
              MathMax(Num(50), Mul(Num(call.imageWidth), parseFloat(call.scale)))
        /\ ret.value.watermarkHeight =
              MathMax(Num(50),
                  Mul(Mul(Num(call.imageHeight), parseFloat(call.scale)), Rat(6, 10)))

C10_Witness ==
    /\ Sized
    /\ call.scale = <<"0", ".", "2">>
    /\ call.imageHeight = 3000
    /\ ret.value.watermarkHeight = Num(360)
    /\ ret.value.watermarkHeight #
          MathMax(Num(50), Mul(Num(call.imageHeight), Rat(6, 10)))

=============================================================================
